---- MODULE Spec2Model ----
(***************************************************************************)
(* A model of residential_schools_dash.py: the cleaning of the sheet       *)
(* (load_and_clean_data), the department filter, the KPI / chart           *)
(* aggregates of tab 1 and the worst-5 rankings of tab 2.                  *)
(*                                                                         *)
(* Text is a sequence of characters.  A printable ASCII character, a tab   *)
(* and a line feed stand for themselves; every other character, and the    *)
(* double quote, the backslash and the backtick, is named by its code      *)
(* point, as "U+00A0".  A cell of the sheet is given as the text that      *)
(* astype(str) hands to the cleaning code, so a missing cell is the text   *)
(* "nan".                                                                  *)
(*                                                                         *)
(* The case mappings and the white space are those of Python on the        *)
(* characters of the set Characters; other characters are outside the      *)
(* inputs of the model.                                                    *)
(*                                                                         *)
(* read_csv is the outcome of the fetch: "pending", "raised" or "read".    *)
(* pc is the position of the script; "stopped" is st.stop(), "crashed" an  *)
(* exception nothing catches.                                              *)
(*                                                                         *)
(* Left out: the ttl cache around load_and_clean_data, the styling of the *)
(* figures, and the rounding of the ratios for display (the tables hold    *)
(* the ratios themselves).                                                 *)
(*                                                                         *)
(* Two specifications share the variables:                                 *)
(*   Spec    one run of the script, from the fetch to the last table;      *)
(*   SpecFn  the cleaning and chart functions applied to bounded inputs.   *)
(*                                                                         *)
(* The numeric loop works on a column: the dtype pandas infers for the     *)
(* parsed cells decides how each of them is cast.  In SpecFn arg is the    *)
(* cell looked at and others are the other cells of its column.  platform  *)
(* is the build: the processor, which decides the outcome of an            *)
(* out-of-range cast, and whether the compiler fuses the multiply-add of   *)
(* the parser.                                                             *)
(***************************************************************************)
EXTENDS Integers, Sequences, FiniteSets, TLC

VARIABLES pc, platform, sheet, read_csv, fetches, messages, df_original, dtypes,
          selected_department, df_filtered, tab1, tab2,
          fn, arg, others, result

vars == <<pc, platform, sheet, read_csv, fetches, messages, df_original, dtypes,
          selected_department, df_filtered, tab1, tab2, fn, arg, others, result>>

script_vars == <<pc, sheet, read_csv, fetches, messages, df_original, dtypes,
                 selected_department, df_filtered, tab1, tab2>>

fn_vars == <<fn, arg, others, result>>

(***************************************************************************)
(* Bounds of the model.                                                    *)
(***************************************************************************)
MaxYesNoLen == 4

MaxNumLen == 4

MaxSuffixLen == 1

MaxChartRows == 3

MaxCount == 2

MaxRows == 7

(***************************************************************************)
(* Python's str operations, as far as the script uses them.                *)
(***************************************************************************)
\* the characters str.isspace() holds of, which str.strip() removes
Whitespace ==
    { "\t", "\n", "U+000B", "U+000C", "U+000D", "U+001C", "U+001D", "U+001E",
      "U+001F", " ", "U+0085", "U+00A0", "U+1680", "U+2000", "U+2001",
      "U+2002", "U+2003", "U+2004", "U+2005", "U+2006", "U+2007", "U+2008",
      "U+2009", "U+200A", "U+2028", "U+2029", "U+202F", "U+205F", "U+3000" }

\* the characters of the model: ASCII, Latin-1, every white space, and the
\* characters outside Latin-1 that the case mappings of these lead to
Characters ==
    { "\t", "\n", "U+000B", "U+000C", "U+000D", "U+001C", "U+001D", "U+001E",
      "U+001F", " ", "!", "U+0022", "#", "$", "%", "&", "'", "(", ")", "*", "+",
      ",", "-", ".", "/", "0", "1", "2", "3", "4", "5", "6", "7", "8", "9",
      ":", ";", "<", "=", ">", "?", "@", "A", "B", "C", "D", "E", "F", "G",
      "H", "I", "J", "K", "L", "M", "N", "O", "P", "Q", "R", "S", "T", "U",
      "V", "W", "X", "Y", "Z", "[", "U+005C", "]", "^", "_", "U+0060", "a", "b", "c",
      "d", "e", "f", "g", "h", "i", "j", "k", "l", "m", "n", "o", "p", "q",
      "r", "s", "t", "u", "v", "w", "x", "y", "z", "{", "|", "}", "~",
      "U+0085", "U+00A0", "U+00A1", "U+00A2", "U+00A3", "U+00A4", "U+00A5",
      "U+00A6", "U+00A7", "U+00A8", "U+00A9", "U+00AA", "U+00AB", "U+00AC",
      "U+00AD", "U+00AE", "U+00AF", "U+00B0", "U+00B1", "U+00B2", "U+00B3",
      "U+00B4", "U+00B5", "U+00B6", "U+00B7", "U+00B8", "U+00B9", "U+00BA",
      "U+00BB", "U+00BC", "U+00BD", "U+00BE", "U+00BF", "U+00C0", "U+00C1",
      "U+00C2", "U+00C3", "U+00C4", "U+00C5", "U+00C6", "U+00C7", "U+00C8",
      "U+00C9", "U+00CA", "U+00CB", "U+00CC", "U+00CD", "U+00CE", "U+00CF",
      "U+00D0", "U+00D1", "U+00D2", "U+00D3", "U+00D4", "U+00D5", "U+00D6",
      "U+00D7", "U+00D8", "U+00D9", "U+00DA", "U+00DB", "U+00DC", "U+00DD",
      "U+00DE", "U+00DF", "U+00E0", "U+00E1", "U+00E2", "U+00E3", "U+00E4",
      "U+00E5", "U+00E6", "U+00E7", "U+00E8", "U+00E9", "U+00EA", "U+00EB",
      "U+00EC", "U+00ED", "U+00EE", "U+00EF", "U+00F0", "U+00F1", "U+00F2",
      "U+00F3", "U+00F4", "U+00F5", "U+00F6", "U+00F7", "U+00F8", "U+00F9",
      "U+00FA", "U+00FB", "U+00FC", "U+00FD", "U+00FE", "U+00FF", "U+0130",
      "U+0131", "U+0178", "U+017F", "U+0307", "U+039C", "U+03BC", "U+1680",
      "U+1E9E", "U+2000", "U+2001", "U+2002", "U+2003", "U+2004", "U+2005",
      "U+2006", "U+2007", "U+2008", "U+2009", "U+200A", "U+2028", "U+2029",
      "U+202F", "U+205F", "U+212A", "U+212B", "U+3000" }

\* str.lower() of the characters it changes; U+0130 gives two characters
LowerCase ==
    ("A" :> <<"a">>) @@ ("B" :> <<"b">>) @@ ("C" :> <<"c">>) @@
    ("D" :> <<"d">>) @@ ("E" :> <<"e">>) @@ ("F" :> <<"f">>) @@
    ("G" :> <<"g">>) @@ ("H" :> <<"h">>) @@ ("I" :> <<"i">>) @@
    ("J" :> <<"j">>) @@ ("K" :> <<"k">>) @@ ("L" :> <<"l">>) @@
    ("M" :> <<"m">>) @@ ("N" :> <<"n">>) @@ ("O" :> <<"o">>) @@
    ("P" :> <<"p">>) @@ ("Q" :> <<"q">>) @@ ("R" :> <<"r">>) @@
    ("S" :> <<"s">>) @@ ("T" :> <<"t">>) @@ ("U" :> <<"u">>) @@
    ("V" :> <<"v">>) @@ ("W" :> <<"w">>) @@ ("X" :> <<"x">>) @@
    ("Y" :> <<"y">>) @@ ("Z" :> <<"z">>) @@ ("U+00C0" :> <<"U+00E0">>) @@
    ("U+00C1" :> <<"U+00E1">>) @@ ("U+00C2" :> <<"U+00E2">>) @@
    ("U+00C3" :> <<"U+00E3">>) @@ ("U+00C4" :> <<"U+00E4">>) @@
    ("U+00C5" :> <<"U+00E5">>) @@ ("U+00C6" :> <<"U+00E6">>) @@
    ("U+00C7" :> <<"U+00E7">>) @@ ("U+00C8" :> <<"U+00E8">>) @@
    ("U+00C9" :> <<"U+00E9">>) @@ ("U+00CA" :> <<"U+00EA">>) @@
    ("U+00CB" :> <<"U+00EB">>) @@ ("U+00CC" :> <<"U+00EC">>) @@
    ("U+00CD" :> <<"U+00ED">>) @@ ("U+00CE" :> <<"U+00EE">>) @@
    ("U+00CF" :> <<"U+00EF">>) @@ ("U+00D0" :> <<"U+00F0">>) @@
    ("U+00D1" :> <<"U+00F1">>) @@ ("U+00D2" :> <<"U+00F2">>) @@
    ("U+00D3" :> <<"U+00F3">>) @@ ("U+00D4" :> <<"U+00F4">>) @@
    ("U+00D5" :> <<"U+00F5">>) @@ ("U+00D6" :> <<"U+00F6">>) @@
    ("U+00D8" :> <<"U+00F8">>) @@ ("U+00D9" :> <<"U+00F9">>) @@
    ("U+00DA" :> <<"U+00FA">>) @@ ("U+00DB" :> <<"U+00FB">>) @@
    ("U+00DC" :> <<"U+00FC">>) @@ ("U+00DD" :> <<"U+00FD">>) @@
    ("U+00DE" :> <<"U+00FE">>) @@ ("U+0130" :> <<"i", "U+0307">>) @@
    ("U+0178" :> <<"U+00FF">>) @@ ("U+039C" :> <<"U+03BC">>) @@
    ("U+1E9E" :> <<"U+00DF">>) @@ ("U+212A" :> <<"k">>) @@
    ("U+212B" :> <<"U+00E5">>)

\* str.upper() of the characters it changes; U+00DF gives two characters
UpperCase ==
    ("a" :> <<"A">>) @@ ("b" :> <<"B">>) @@ ("c" :> <<"C">>) @@
    ("d" :> <<"D">>) @@ ("e" :> <<"E">>) @@ ("f" :> <<"F">>) @@
    ("g" :> <<"G">>) @@ ("h" :> <<"H">>) @@ ("i" :> <<"I">>) @@
    ("j" :> <<"J">>) @@ ("k" :> <<"K">>) @@ ("l" :> <<"L">>) @@
    ("m" :> <<"M">>) @@ ("n" :> <<"N">>) @@ ("o" :> <<"O">>) @@
    ("p" :> <<"P">>) @@ ("q" :> <<"Q">>) @@ ("r" :> <<"R">>) @@
    ("s" :> <<"S">>) @@ ("t" :> <<"T">>) @@ ("u" :> <<"U">>) @@
    ("v" :> <<"V">>) @@ ("w" :> <<"W">>) @@ ("x" :> <<"X">>) @@
    ("y" :> <<"Y">>) @@ ("z" :> <<"Z">>) @@ ("U+00B5" :> <<"U+039C">>) @@
    ("U+00DF" :> <<"S", "S">>) @@ ("U+00E0" :> <<"U+00C0">>) @@
    ("U+00E1" :> <<"U+00C1">>) @@ ("U+00E2" :> <<"U+00C2">>) @@
    ("U+00E3" :> <<"U+00C3">>) @@ ("U+00E4" :> <<"U+00C4">>) @@
    ("U+00E5" :> <<"U+00C5">>) @@ ("U+00E6" :> <<"U+00C6">>) @@
    ("U+00E7" :> <<"U+00C7">>) @@ ("U+00E8" :> <<"U+00C8">>) @@
    ("U+00E9" :> <<"U+00C9">>) @@ ("U+00EA" :> <<"U+00CA">>) @@
    ("U+00EB" :> <<"U+00CB">>) @@ ("U+00EC" :> <<"U+00CC">>) @@
    ("U+00ED" :> <<"U+00CD">>) @@ ("U+00EE" :> <<"U+00CE">>) @@
    ("U+00EF" :> <<"U+00CF">>) @@ ("U+00F0" :> <<"U+00D0">>) @@
    ("U+00F1" :> <<"U+00D1">>) @@ ("U+00F2" :> <<"U+00D2">>) @@
    ("U+00F3" :> <<"U+00D3">>) @@ ("U+00F4" :> <<"U+00D4">>) @@
    ("U+00F5" :> <<"U+00D5">>) @@ ("U+00F6" :> <<"U+00D6">>) @@
    ("U+00F8" :> <<"U+00D8">>) @@ ("U+00F9" :> <<"U+00D9">>) @@
    ("U+00FA" :> <<"U+00DA">>) @@ ("U+00FB" :> <<"U+00DB">>) @@
    ("U+00FC" :> <<"U+00DC">>) @@ ("U+00FD" :> <<"U+00DD">>) @@
    ("U+00FE" :> <<"U+00DE">>) @@ ("U+00FF" :> <<"U+0178">>) @@
    ("U+0131" :> <<"I">>) @@ ("U+017F" :> <<"S">>) @@
    ("U+03BC" :> <<"U+039C">>)

Digits == <<"0","1","2","3","4","5","6","7","8","9">>

LowerChar(c) ==
    CASE c \in DOMAIN LowerCase -> LowerCase[c]
      [] c \in Characters \ DOMAIN LowerCase -> <<c>>

UpperChar(c) ==
    CASE c \in DOMAIN UpperCase -> UpperCase[c]
      [] c \in Characters \ DOMAIN UpperCase -> <<c>>

RECURSIVE lower(_)
lower(s) == IF s = <<>> THEN <<>> ELSE LowerChar(Head(s)) \o lower(Tail(s))

RECURSIVE upper(_)
upper(s) == IF s = <<>> THEN <<>> ELSE UpperChar(Head(s)) \o upper(Tail(s))

IsSpace(c) == c \in Whitespace

RECURSIVE lstrip(_)
lstrip(s) == IF s # <<>> /\ IsSpace(Head(s)) THEN lstrip(Tail(s)) ELSE s

RECURSIVE rstrip(_)
rstrip(s) ==
    IF s # <<>> /\ IsSpace(s[Len(s)]) THEN rstrip(SubSeq(s, 1, Len(s) - 1)) ELSE s

strip(s) == rstrip(lstrip(s))

startswith(s, p) == Len(s) >= Len(p) /\ SubSeq(s, 1, Len(p)) = p

\* Python's `sub in s`.
contains(s, sub) ==
    \E i \in 0..(Len(s) - Len(sub)) : SubSeq(s, i + 1, i + Len(sub)) = sub

\* s.split(sep)[0]: the part of s before the first sep, all of s without one.
split_first(s, sep) ==
    IF \E i \in 1..Len(s) : s[i] = sep
    THEN SubSeq(s, 1, (CHOOSE i \in 1..Len(s) :
                          s[i] = sep /\ \A j \in 1..(i - 1) : s[j] # sep) - 1)
    ELSE s

IsDigit(c) == \E i \in 1..10 : Digits[i] = c

DigitVal(c) == (CHOOSE i \in 1..10 : Digits[i] = c) - 1

\* regex_strip with the period left out of the character class
regex_strip_no_period(s) == SelectSeq(s, LAMBDA c : IsDigit(c) \/ c = "-")

\* str.replace(r'[^0-9\.\-]', '', regex=True)
regex_strip(s) == SelectSeq(s, LAMBDA c : IsDigit(c) \/ c = "." \/ c = "-")

\* first_segment without the split on the hyphen
first_segment_no_hyphen_split(x) == strip(split_first(x, "$"))

\* the lambda of the numeric loop: x.split('-')[0].split('$')[0].strip()
first_segment(x) == strip(split_first(split_first(x, "-"), "$"))

(***************************************************************************)
(* Natural numbers of any size, for the 64-bit integers and the float64    *)
(* of the numeric loop: the decimal digits as integers, the least          *)
(* significant first, without zeros at the top; <<>> is 0.                 *)
(***************************************************************************)
\* the sequence f, element by element
Elements(f) == f \o <<>>

Rest(a) == IF a = <<>> THEN <<>> ELSE Tail(a)

Normal(a) ==
    SubSeq(a, 1, IF \E i \in 1..Len(a) : a[i] # 0
                 THEN CHOOSE i \in 1..Len(a) :
                          a[i] # 0 /\ \A j \in (i + 1)..Len(a) : a[j] = 0
                 ELSE 0)

\* the number a text of digits stands for, and the text of a number
NatOf(d) == Normal(Elements([i \in 1..Len(d) |-> DigitVal(d[Len(d) + 1 - i])]))

TextOf(a) ==
    IF a = <<>> THEN <<"0">>
    ELSE Elements([i \in 1..Len(a) |-> Digits[a[Len(a) + 1 - i] + 1]])

RECURSIVE IntDigits(_)
IntDigits(n) ==
    IF n < 10 THEN <<Digits[n + 1]>> ELSE Append(IntDigits(n \div 10), Digits[(n % 10) + 1])

\* the number of a small integer
Small(n) == NatOf(IntDigits(n))

RECURSIVE Value(_)
Value(a) == IF a = <<>> THEN 0 ELSE a[1] + 10 * Value(Tail(a))

Less(a, b) ==
    \/ Len(a) < Len(b)
    \/ /\ Len(a) = Len(b)
       /\ \E i \in 1..Len(a) : a[i] < b[i] /\ \A j \in (i + 1)..Len(a) : a[j] = b[j]

Odd(a) == a # <<>> /\ a[1] % 2 = 1

RECURSIVE AddCarry(_, _, _)
AddCarry(a, b, carry) ==
    IF a = <<>> /\ b = <<>> THEN (IF carry = 0 THEN <<>> ELSE <<carry>>)
    ELSE LET x == (IF a = <<>> THEN 0 ELSE a[1]) + (IF b = <<>> THEN 0 ELSE b[1]) + carry
         IN  <<x % 10>> \o AddCarry(Rest(a), Rest(b), x \div 10)

Add(a, b) == AddCarry(a, b, 0)

RECURSIVE SubBorrow(_, _, _)
SubBorrow(a, b, borrow) ==
    IF a = <<>> THEN <<>>
    ELSE LET x == a[1] - (IF b = <<>> THEN 0 ELSE b[1]) - borrow
         IN  <<(x + 10) % 10>> \o SubBorrow(Tail(a), Rest(b), IF x < 0 THEN 1 ELSE 0)

\* a - b, for b not above a
Sub(a, b) == Normal(SubBorrow(a, b, 0))

RECURSIVE MulCarry(_, _, _)
MulCarry(a, k, carry) ==
    IF a = <<>> THEN (IF carry = 0 THEN <<>>
                      ELSE <<carry % 10>> \o MulCarry(<<>>, k, carry \div 10))
    ELSE LET x == a[1] * k + carry
         IN  <<x % 10>> \o MulCarry(Tail(a), k, x \div 10)

\* a * k and a divided by k, for a small integer k
MulSmall(a, k) == Normal(MulCarry(a, k, 0))

RECURSIVE DivStep(_, _, _, _)
DivStep(a, k, i, r) ==
    IF i = 0 THEN [q |-> <<>>, r |-> r]
    ELSE LET x    == r * 10 + a[i]
             rest == DivStep(a, k, i - 1, x % k)
         IN  [q |-> Append(rest.q, x \div k), r |-> rest.r]

DivSmall(a, k) ==
    LET d == DivStep(a, k, Len(a), 0) IN [q |-> Normal(d.q), r |-> d.r]

MulPow10(a, n) == IF a = <<>> THEN <<>> ELSE [i \in 1..n |-> 0] \o a

DivPow10(a, n) ==
    IF n >= Len(a) THEN [q |-> <<>>, r |-> a]
    ELSE [q |-> SubSeq(a, n + 1, Len(a)), r |-> Normal(SubSeq(a, 1, n))]

RECURSIVE MulPow2(_, _)
MulPow2(a, s) == IF s <= 20 THEN MulSmall(a, 2^s) ELSE MulPow2(MulSmall(a, 2^20), s - 20)

\* the whole part of a / 2^s
RECURSIVE DivPow2(_, _)
DivPow2(a, s) == IF s <= 20 THEN DivSmall(a, 2^s).q ELSE DivPow2(DivSmall(a, 2^20).q, s - 20)

TwoTo == [k \in 0..70 |-> MulPow2(<<1>>, k)]

\* the bits of a number below 2^70
BitLength(a) ==
    IF a = <<>> THEN 0
    ELSE CHOOSE n \in 1..70 : ~Less(a, TwoTo[n - 1]) /\ Less(a, TwoTo[n])

(***************************************************************************)
(* float64 arithmetic on whole numbers: a float64 holds 53 bits, and an    *)
(* operation delivers the float64 nearest to its exact result, the one     *)
(* with the even last bit when two are as near.                            *)
(***************************************************************************)
\* the float64 nearest to the whole number m, below 2^70
RoundDouble(m) ==
    LET k == BitLength(m) - 53
    IN  IF k <= 0 THEN m
        ELSE LET d  == DivSmall(m, 2^k)
                 up == 2 * d.r > 2^k \/ (2 * d.r = 2^k /\ Odd(d.q))
             IN  MulSmall(IF up THEN Add(d.q, <<1>>) ELSE d.q, 2^k)

\* The whole part of the float64 number / 10^n, for a float64 number that is
\* whole and n up to max_digits.  Q is the whole part of the exact quotient,
\* of L bits, R the remainder.  With L up to 52 the float64 has bits behind
\* the point, and is Q or more, and is Q + 1 when the exact quotient is
\* within half of its last bit, 2^(L - 54), of Q + 1.  With more bits the
\* float64 is whole: the exact quotient rounded to a multiple of 2^(L - 53).
DividedByPow10(number, n) ==
    LET B == MulPow10(<<1>>, n)
        Q == DivPow10(number, n).q
        R == DivPow10(number, n).r
        L == BitLength(Q)
    IN  IF L <= 52
        THEN IF R # <<>> /\ ~Less(B, MulPow2(Sub(B, R), 54 - L)) THEN Add(Q, <<1>>) ELSE Q
        ELSE LET d   == DivSmall(Q, 2^(L - 53))
                 rem == Add(MulPow10(Small(d.r), n), R)
                 B2  == MulSmall(B, 2^(L - 53))
                 up  == Less(B2, MulSmall(rem, 2)) \/ (MulSmall(rem, 2) = B2 /\ Odd(d.q))
             IN  MulSmall(IF up THEN Add(d.q, <<1>>) ELSE d.q, 2^(L - 53))

(***************************************************************************)
(* pd.to_numeric(x, errors='coerce') on one text: the number parser of     *)
(* pandas (precise_xstrtod), and the 64-bit integer of a text without a    *)
(* period.  The texts that reach it hold digits and periods only           *)
(* (regex_strip, first_segment), so exponents and the words 'inf' / 'nan'  *)
(* are not modelled; a sign is.                                            *)
(*                                                                         *)
(* A float64 is kept as its sign and its whole part, which is all the cast *)
(* to int64 reads of it; `beyond` is a finite float64 of 2^63 or more,     *)
(* whose whole part is not kept.                                           *)
(***************************************************************************)
NaN == [nan |-> TRUE]

IsNaN(x) == x.nan

Float64NaN == [kind |-> "float64", nan |-> TRUE]

Float64(neg, v) ==
    [kind |-> "float64", nan |-> FALSE, neg |-> neg,
     beyond |-> ~Less(v, TwoTo[63]), whole |-> IF Less(v, TwoTo[63]) THEN v ELSE <<>>]

Float64Beyond(neg) ==
    [kind |-> "float64", nan |-> FALSE, neg |-> neg, beyond |-> TRUE, whole |-> <<>>]

Int64Scalar(neg, mag) == [kind |-> "int64", nan |-> FALSE, neg |-> neg, mag |-> mag]

UInt64Scalar(mag) == [kind |-> "uint64", nan |-> FALSE, neg |-> FALSE, mag |-> mag]

AllDigits(s) == \A i \in 1..Len(s) : IsDigit(s[i])

\* the white space the number parser skips around the number
IsAsciiSpace(c) == c \in {" ", "\t", "\n", "U+000B", "U+000C", "U+000D"}

RECURSIVE skip_space(_)
skip_space(s) ==
    IF s # <<>> /\ IsAsciiSpace(Head(s)) THEN skip_space(Tail(s))
    ELSE IF s # <<>> /\ IsAsciiSpace(s[Len(s)]) THEN skip_space(SubSeq(s, 1, Len(s) - 1))
    ELSE s

DropLeadingZeros(d) ==
    IF \E i \in 1..Len(d) : d[i] # "0"
    THEN SubSeq(d, CHOOSE i \in 1..Len(d) : d[i] # "0" /\ \A j \in 1..(i - 1) : d[j] = "0",
                Len(d))
    ELSE <<>>

Nines(n) == [i \in 1..n |-> "9"]

Zeros(n) == [i \in 1..n |-> "0"]

\* The longest run of digits whose value a 32-bit integer of the model holds.
ExactLen == 9

\* the digits the parser reads into the number; a later digit before the
\* period only counts as a power of ten, a later one behind it is dropped
max_digits == 17

\* the largest power of ten of the parser's table e[]
MaxExponent == 308

\* number = number * 10. + digit, digit by digit: the product and the sum
\* are rounded one after the other, or once where the build fuses them.
\* Up to 15 digits the number is below 2^53 and no step rounds, so only the
\* steps of the 16th and the 17th digit are taken one by one.
Accumulate(digits, plat) ==
    LET step(number, c) ==
            IF plat.fma
            THEN RoundDouble(Add(MulSmall(number, 10), Small(DigitVal(c))))
            ELSE RoundDouble(Add(RoundDouble(MulSmall(number, 10)), Small(DigitVal(c))))
        exact == NatOf(SubSeq(digits, 1, IF Len(digits) < 15 THEN Len(digits) ELSE 15))
    IN  IF Len(digits) <= 15 THEN exact
        ELSE IF Len(digits) = 16 THEN step(exact, digits[16])
        ELSE step(step(exact, digits[16]), digits[17])

\* The least whole number whose product with e[exponent] is beyond every
\* float64 (HUGE_VAL), for the exponents where there is one: 292 to 308.
\* For 292 it is 17976931348623158, and a tenth of that, rounded up, for
\* every exponent more.
OverflowFrom(exponent) ==
    LET d == DivPow10(NatOf(<<"1","7","9","7","6","9","3","1","3","4","8","6","2",
                              "3","1","5","8">>), exponent - 292)
    IN  IF d.r = <<>> THEN d.q ELSE Add(d.q, <<1>>)

\* number *= e[exponent], for a number that is not 0
TimesPow10(number, exponent, negative) ==
    IF exponent >= 292 /\ ~Less(number, OverflowFrom(exponent)) THEN [error |-> TRUE]
    ELSE IF Len(number) + exponent > 20
    THEN [error |-> FALSE, value |-> Float64Beyond(negative)]
    ELSE [error |-> FALSE,
          value |-> Float64(negative, RoundDouble(MulPow10(number, exponent)))]

\* the sign of the text, its digits before the period and those behind it
split_number(x) ==
    LET t     == skip_space(x)
        body  == IF t # <<>> /\ Head(t) \in {"-", "+"} THEN Tail(t) ELSE t
        whole == split_first(body, ".")
    IN  [negative  |-> t # <<>> /\ Head(t) = "-",
         whole     |-> whole,
         maybe_int |-> Len(whole) = Len(body),
         decimals  |-> IF Len(whole) = Len(body) THEN <<>>
                       ELSE SubSeq(body, Len(whole) + 2, Len(body))]

\* the digits read into the number, max_digits of them at most, and the power
\* of ten the number is to be multiplied by
read_digits(whole, decimals) ==
    LET num_whole    == IF Len(whole) < max_digits THEN Len(whole) ELSE max_digits
        num_decimals == IF Len(decimals) < max_digits - num_whole
                        THEN Len(decimals) ELSE max_digits - num_whole
    IN  [digits   |-> SubSeq(whole, 1, num_whole) \o SubSeq(decimals, 1, num_decimals),
         exponent |-> (Len(whole) - num_whole) - num_decimals]

\* the number scaled by 10^exponent
scaled_by_pow10(number, exponent, negative) ==
    IF number = <<>> THEN [error |-> FALSE, value |-> Float64(negative, <<>>)]
    ELSE IF exponent > 0 THEN TimesPow10(number, exponent, negative)
    ELSE [error |-> FALSE,
          value |-> Float64(negative, DividedByPow10(number, 0 - exponent))]

\* the outcome of the parser: an error, or the float64 with what
\* maybe_convert_numeric needs of the text
parsed(text, scaled) ==
    [error |-> scaled.error, maybe_int |-> text.maybe_int, negative |-> text.negative,
     digits |-> DropLeadingZeros(text.whole),
     value |-> IF scaled.error THEN Float64NaN ELSE scaled.value]

convert(text, read, plat) ==
    IF ~(AllDigits(text.whole) /\ AllDigits(text.decimals)) \/ read.digits = <<>>
         \/ read.exponent > MaxExponent
    THEN [error |-> TRUE]
    ELSE parsed(text, scaled_by_pow10(Accumulate(read.digits, plat), read.exponent,
                                      text.negative))

read_number(text, plat) == convert(text, read_digits(text.whole, text.decimals), plat)

precise_xstrtod(x, plat) == read_number(split_number(x), plat)

\* maybe_convert_numeric on the outcome p of the parser: a text the parser
\* refuses is NaN, a text without a period is int(text) where that is a
\* 64-bit integer
maybe_convert_numeric(p) ==
    IF p.error THEN Float64NaN
    ELSE IF ~p.maybe_int \/ Len(p.digits) > 20 THEN p.value
    ELSE IF p.negative
    THEN IF Less(TwoTo[63], NatOf(p.digits)) THEN p.value
         ELSE Int64Scalar(p.digits # <<>>, NatOf(p.digits))
    ELSE IF Less(NatOf(p.digits), TwoTo[63]) THEN Int64Scalar(FALSE, NatOf(p.digits))
    ELSE IF Less(NatOf(p.digits), TwoTo[64]) THEN UInt64Scalar(NatOf(p.digits))
    ELSE p.value

\* pd.to_numeric(x, errors='coerce') on the one text
to_numeric(x, plat) == maybe_convert_numeric(precise_xstrtod(x, plat))

(***************************************************************************)
(* A Series of the numeric loop is its dtype and its cells.  Series.apply  *)
(* infers the dtype from the values the lambda returned                    *)
(* (maybe_convert_objects): float64 with a float64 among them, the         *)
(* integers rounded to float64; uint64 with an integer of 2^63 or more;    *)
(* int64 otherwise; integers of 2^63 or more next to negative ones stay    *)
(* Python objects.                                                         *)
(***************************************************************************)
to_float64(x) == IF x.kind = "float64" THEN x ELSE Float64(x.neg, RoundDouble(x.mag))

inferred_dtype(values) ==
    LET has(kind) == \E i \in 1..Len(values) : values[i].kind = kind
    IN  IF has("uint64") /\ \E i \in 1..Len(values) : values[i].kind = "int64" /\ values[i].neg
        THEN "object"
        ELSE IF has("float64") THEN "float64"
        ELSE IF has("uint64") THEN "uint64"
        ELSE "int64"

\* the Series of the values the lambda returned
maybe_convert_objects(values) ==
    [dtype |-> inferred_dtype(values),
     cells |-> IF inferred_dtype(values) = "float64"
               THEN Elements([i \in 1..Len(values) |-> to_float64(values[i])])
               ELSE values]

\* Series.apply(lambda x: pd.to_numeric(..., errors='coerce'))
apply_to_numeric(column, plat) ==
    maybe_convert_objects(
        Elements([i \in 1..Len(column) |-> to_numeric(first_segment(column[i]), plat)]))

\* Series.fillna(0)
fillna0(series) ==
    [series EXCEPT !.cells =
        Elements([i \in 1..Len(series.cells) |->
                     IF ~IsNaN(series.cells[i]) THEN series.cells[i]
                     ELSE IF series.dtype = "float64" THEN Float64(FALSE, <<>>)
                     ELSE Int64Scalar(FALSE, <<>>)])]

(***************************************************************************)
(* Series.astype(int): int64.  A value of at most ExactLen digits is       *)
(* [rep |-> "exact", v |-> n], a longer one its sign and its digits.  A    *)
(* uint64 column is reinterpreted: 2^63 and more wrap to the negative      *)
(* numbers.  A float64 column is cast without a check of the range, its    *)
(* cells being finite; the C cast of a float64 of 2^63 or more is          *)
(* undefined, and yields the smallest int64 on x86-64 and the largest on   *)
(* aarch64.  In an object column int() of a number of 2^63 or more raises  *)
(* OverflowError.                                                          *)
(***************************************************************************)
Int64(n) == [rep |-> "exact", v |-> n]

Int64Of(neg, mag) ==
    IF Len(mag) <= ExactLen THEN Int64(IF neg THEN 0 - Value(mag) ELSE Value(mag))
    ELSE [rep |-> "digits", neg |-> neg, d |-> TextOf(mag)]

Int64Min == Int64Of(TRUE, TwoTo[63])

Int64Max == Int64Of(FALSE, Sub(TwoTo[63], <<1>>))

OverflowError == [rep |-> "OverflowError"]

astype_int(series, plat) ==
    LET cast(x) ==
            IF series.dtype = "int64" THEN Int64Of(x.neg, x.mag)
            ELSE IF series.dtype = "uint64"
            THEN IF Less(x.mag, TwoTo[63]) THEN Int64Of(FALSE, x.mag)
                 ELSE Int64Of(TRUE, Sub(TwoTo[64], x.mag))
            ELSE IF series.dtype = "float64"
            THEN IF ~x.beyond THEN Int64Of(x.neg /\ x.whole # <<>>, x.whole)
                 ELSE IF x.neg \/ plat.arch = "x86_64" THEN Int64Min
                 ELSE Int64Max
            ELSE OverflowError
    IN  Elements([i \in 1..Len(series.cells) |-> cast(series.cells[i])])

\* The builds the script may run on: the processor decides the cast of a
\* float64 beyond the int64 range, the compiler whether number * 10. + digit
\* is one fused operation.
Platforms == [arch : {"x86_64", "aarch64"}, fma : BOOLEAN]

(***************************************************************************)
(* The two cleaning policies of load_and_clean_data: the yes/no policy on  *)
(* one cell, the numeric policy on one column.                             *)
(***************************************************************************)
\* .str.lower().str.strip().apply(lambda x: 'yes' if 'yes' in x else ...)
clean_yes_no(x) ==
    LET t == strip(lower(x))
    IN  IF contains(t, <<"y","e","s">>) THEN <<"y","e","s">>
        ELSE IF contains(t, <<"n","o">>) THEN <<"n","o">>
        ELSE t

\* .astype(str).str.replace(r'[^0-9\.\-]', '', regex=True) on a column
str_replace(column) == Elements([i \in 1..Len(column) |-> regex_strip(column[i])])

\* the body of the numeric loop on one column, given as the texts of its
\* cells: the int64 of every cell
clean_numeric(column, plat) ==
    astype_int(fillna0(apply_to_numeric(str_replace(column), plat)), plat)

\* get_department without the upper()
get_department_case_sensitive(school_name) ==
    IF startswith(school_name, <<"K","G","B","V">>) THEN "KGBV (Girls)"
    ELSE IF startswith(school_name, <<"T","G","M","S">>) THEN "TGMS (Co-ed)"
    ELSE IF startswith(school_name, <<"P","M","S","H","R","I">>) THEN "PMSHRI (Co-ed)"
    ELSE "Other"

(***************************************************************************)
(* get_department                                                          *)
(***************************************************************************)
get_department(school_name) ==
    LET name == upper(school_name)
    IN  IF startswith(name, <<"K","G","B","V">>) THEN "KGBV (Girls)"
        ELSE IF startswith(name, <<"T","G","M","S">>) THEN "TGMS (Co-ed)"
        ELSE IF startswith(name, <<"P","M","S","H","R","I">>) THEN "PMSHRI (Co-ed)"
        ELSE "Other"

(***************************************************************************)
(* Aggregates over a data frame: a sequence of rows, a row a function      *)
(* from column names to cells.                                             *)
(***************************************************************************)
RECURSIVE column_sum(_, _)
column_sum(df, col) ==
    IF df = <<>> THEN 0 ELSE df[1][col] + column_sum(Tail(df), col)

\* A quotient n / d of two integers, d > 0, kept exact.
Ratio(n, d) == [nan |-> FALSE, num |-> n, den |-> d]

RatioLess(a, b) == a.num * b.den < b.num * a.den

RatioEq(a, b) == a.num * b.den = b.num * a.den

\* create_fulfillment_chart reading 'required' as the total need
create_fulfillment_chart_required_is_total(df, col_available, col_required) ==
    LET available  == column_sum(df, col_available)
        total_need == column_sum(df, col_required)
        deficiency == IF total_need > available THEN total_need - available ELSE 0
        data == << [Status |-> "Deficient", Count |-> deficiency],
                   [Status |-> "Available", Count |-> available] >>
    IN  [fulfillment_ratio |-> IF total_need > 0 THEN Ratio(available, total_need)
                               ELSE Ratio(1, 1),
         data  |-> SelectSeq(data, LAMBDA r : r.Count > 0),
         max_x |-> total_need]

(***************************************************************************)
(* create_fulfillment_chart: the figure is kept as the fulfillment ratio   *)
(* of its title, the rows of its data frame and its x range.               *)
(***************************************************************************)
create_fulfillment_chart(df, col_available, col_required) ==
    LET available           == column_sum(df, col_available)
        required_deficiency == column_sum(df, col_required)
        total_need          == available + required_deficiency
        fulfillment_ratio   == IF total_need > 0 THEN Ratio(available, total_need)
                               ELSE Ratio(1, 1)
        data == << [Status |-> "Deficient", Count |-> required_deficiency],
                   [Status |-> "Available", Count |-> available] >>
    IN  [fulfillment_ratio |-> fulfillment_ratio,
         data  |-> SelectSeq(data, LAMBDA r : r.Count > 0),
         max_x |-> total_need]

\* create_yes_no_chart counting as No the rows that hold 'no'
create_yes_no_chart_counting_no(df, col) ==
    LET yes_count == Cardinality({i \in 1..Len(df) :
                                     contains(lower(df[i][col]), <<"y","e","s">>)})
        no_count  == Cardinality({i \in 1..Len(df) :
                                     contains(lower(df[i][col]), <<"n","o">>)})
        total     == Len(df)
    IN  [yes_percent |-> IF total > 0 THEN Ratio(yes_count, total) ELSE Ratio(0, 1),
         data |-> << [Status |-> "Yes", Count |-> yes_count],
                     [Status |-> "No",  Count |-> no_count] >>]

(***************************************************************************)
(* create_yes_no_chart.  The columns it is given hold text, on which       *)
(* astype(str) changes nothing.                                            *)
(***************************************************************************)
create_yes_no_chart(df, col) ==
    LET yes_count == Cardinality({i \in 1..Len(df) :
                                     contains(lower(df[i][col]), <<"y","e","s">>)})
        total     == Len(df)
        no_count  == total - yes_count
        yes_percent == IF total > 0 THEN Ratio(yes_count, total) ELSE Ratio(0, 1)
    IN  [yes_percent |-> yes_percent,
         data |-> << [Status |-> "Yes", Count |-> yes_count],
                     [Status |-> "No",  Count |-> no_count] >>]

(***************************************************************************)
(* COLUMN_MAPPING and the column lists of load_and_clean_data.             *)
(***************************************************************************)
COLUMN_MAPPING ==
    ("Sl_no" :> "sl_no") @@ ("School_Name" :> "school_name") @@
    ("Totel_enrolled_students" :> "enrolled_students") @@
    ("Vacant_seats" :> "vacant_seats") @@
    ("Driniking water Facility (Yes/No)" :> "drinking_water") @@
    ("RO Plant available or not" :> "ro_plant") @@
    ("No of class rooms available" :> "class_rooms_available") @@
    ("No of class rooms required" :> "class_rooms_required") @@
    ("No of Darmitories Available" :> "dormitories_available") @@
    ("No of Darmitories Required" :> "dormitories_required") @@
    ("No of Functional Toilets Availabale" :> "toilets_functional_available") @@
    ("No of Toilets Required" :> "toilets_required") @@
    ("No of Bathrooms Available" :> "bathrooms_available") @@
    ("No of Bathrooms Required" :> "bathrooms_required") @@
    ("No of Dual Desk Tables Available" :> "dual_desk_available") @@
    ("No of Dual Desk Tables Required" :> "dual_desk_required") @@
    ("No of Computers Available" :> "computers_available") @@
    ("Internet Facility available(yes /No)" :> "internet_facility") @@
    ("No of Dining Tables Availabale" :> "dining_tables_available") @@
    ("No of Dining Tables Required" :> "dining_tables_required") @@
    ("No of cots Available" :> "cots_available") @@
    ("No of cots Required" :> "cots_required") @@
    ("No of Matresses available" :> "matresses_available") @@
    ("No of Matresses required" :> "matresses_required") @@
    ("No of Blankets Available" :> "blankets_available") @@
    ("No of Blankets Required" :> "blankets_required") @@
    ("Solar Water Heater/ Geyser Available" :> "swh_available") @@
    ("Solar Water Heater/ Geyser Requirement" :> "swh_required") @@
    ("No of IFP panels availble" :> "ifp_panels_available") @@
    ("Vacancy" :> "vacancy_count") @@ ("Remarks" :> "remarks")

Columns == {COLUMN_MAPPING[h] : h \in DOMAIN COLUMN_MAPPING}

yes_no_cols ==
    {"drinking_water", "ro_plant", "internet_facility", "swh_available", "swh_required"}

numeric_cols ==
    Columns \ {"sl_no", "school_name", "drinking_water", "ro_plant",
               "internet_facility", "remarks"}

\* The ratio columns, in the order load_and_clean_data adds them, with the
\* count each divides and its scale.
ratio_cols ==
    << [col |-> "ratio_classrooms", of |-> "class_rooms_available",        scale |-> 100],
       [col |-> "ratio_toilets",    of |-> "toilets_functional_available", scale |-> 100],
       [col |-> "ratio_bathrooms",  of |-> "bathrooms_available",          scale |-> 100],
       [col |-> "ratio_desks",      of |-> "dual_desk_available",          scale |-> 1],
       [col |-> "ratio_cots",       of |-> "cots_available",               scale |-> 1],
       [col |-> "ratio_computers",  of |-> "computers_available",          scale |-> 1] >>

RatioColNames == {ratio_cols[k].col : k \in 1..Len(ratio_cols)}

DerivedCols == {"Department", "enrolled_students_safe"} \cup RatioColNames

(***************************************************************************)
(* float64 cells: NaN, or the exact quotient Ratio(n, d); d = 0 stands for *)
(* an infinity.  The counts of the model are small enough for the float64  *)
(* order of two quotients to be the order of the exact quotients.  A       *)
(* column is its dtype and its cells; the cells of an int64 column are     *)
(* integers.                                                               *)
(***************************************************************************)
\* enrolled_students_safe without the replace
replace_nothing(column) == column

\* Series.replace(0, np.nan) on an int64 column: with a 0 to replace the
\* column becomes float64, without one it stays as it is
replace_zero_by_nan(column) ==
    IF \E i \in 1..Len(column.cells) : column.cells[i] = 0
    THEN [dtype |-> "float64",
          cells |-> [i \in 1..Len(column.cells) |->
                        IF column.cells[i] = 0 THEN NaN ELSE Ratio(column.cells[i], 1)]]
    ELSE column

\* int64 / enrolled_students_safe * scale, as numpy divides: x / 0 is an
\* infinity, 0 / 0 is NaN
ratio_of(count, safe, dtype, scale) ==
    IF dtype = "float64"
    THEN IF IsNaN(safe) THEN NaN
         ELSE IF safe.num = 0 THEN (IF count = 0 THEN NaN ELSE Ratio(1, 0))
         ELSE Ratio(count * safe.den * scale, safe.num)
    ELSE IF safe = 0 THEN (IF count = 0 THEN NaN ELSE Ratio(1, 0))
         ELSE Ratio(count * scale, safe)

\* the int64 of a cell, for the counts the model holds exactly: the cells of
\* the sample sheet are of at most ExactLen digits
int64_value(r) == r.v

(***************************************************************************)
(* load_and_clean_data, after a successful read_csv.  The sheet is a       *)
(* sequence of rows under the sheet's headers; its rows have the same      *)
(* headers.                                                                *)
(***************************************************************************)
rename(row) ==
    LET new_name(h) == IF h \in DOMAIN COLUMN_MAPPING THEN COLUMN_MAPPING[h] ELSE h
    IN  [c \in {new_name(h) : h \in DOMAIN row} |->
            row[CHOOSE h \in DOMAIN row : new_name(h) = c]]

strip_school_name(row) == [row EXCEPT !["school_name"] = strip(@)]

clean_yes_no_cols(row) ==
    [c \in DOMAIN row |-> IF c \in yes_no_cols THEN clean_yes_no(row[c]) ELSE row[c]]

\* the numeric loop: every numeric column is cleaned as a whole
clean_numeric_cols(df, plat) ==
    LET cleaned == {<<c, clean_numeric([i \in 1..Len(df) |-> df[i][c]], plat)>> :
                       c \in numeric_cols}
        column(c) == (CHOOSE p \in cleaned : p[1] = c)[2]
    IN  [i \in 1..Len(df) |->
            [c \in DOMAIN df[i] |->
                IF c \in numeric_cols THEN int64_value(column(c)[i]) ELSE df[i][c]]]

\* df['enrolled_students_safe']
enrolled_students_safe(df) ==
    replace_zero_by_nan([dtype |-> "int64",
                         cells |-> [i \in 1..Len(df) |-> df[i]["enrolled_students"]]])

add_calculated_metrics(df) ==
    LET safe == enrolled_students_safe(df)
        ratio(i, c) ==
            LET k == CHOOSE k \in 1..Len(ratio_cols) : ratio_cols[k].col = c
            IN  ratio_of(df[i][ratio_cols[k].of], safe.cells[i], safe.dtype,
                         ratio_cols[k].scale)
    IN  [i \in 1..Len(df) |->
            [c \in DOMAIN df[i] \cup DerivedCols |->
                IF c = "Department" THEN get_department(df[i]["school_name"])
                ELSE IF c = "enrolled_students_safe" THEN safe.cells[i]
                ELSE IF c \in RatioColNames THEN ratio(i, c)
                ELSE df[i][c]]]

\* the columns load_and_clean_data reads by name; without one of them the
\* load ends in a KeyError
needed_cols == {"school_name"} \cup yes_no_cols \cup numeric_cols

has_needed_cols(csv) ==
    IF csv = <<>> THEN TRUE ELSE needed_cols \subseteq DOMAIN rename(csv[1])

clean_frame(csv, plat) ==
    add_calculated_metrics(
        clean_numeric_cols(
            [i \in 1..Len(csv) |-> clean_yes_no_cols(strip_school_name(rename(csv[i])))],
            plat))

\* the dtype of every column of the frame load_and_clean_data returns, given
\* the sheet's headers under their new names and the cleaned counts; the
\* columns the code does not convert are taken as read, as text
clean_dtypes(columns, df) ==
    [c \in columns \cup DerivedCols |->
        IF c \in numeric_cols THEN "int64"
        ELSE IF c = "enrolled_students_safe" THEN enrolled_students_safe(df).dtype
        ELSE IF c \in RatioColNames THEN "float64"
        ELSE "object"]

\* the new names of the sheet's headers; a sheet without rows is taken to
\* have every header
columns_of(csv) == IF csv = <<>> THEN Columns ELSE DOMAIN rename(csv[1])

(***************************************************************************)
(* The sheet: any selection of the first MaxRows rows of a sample sheet,   *)
(* top down or bottom up, or one of these rows without one column.         *)
(***************************************************************************)
CountColumns ==
    << "class_rooms_available", "class_rooms_required", "dormitories_available",
       "dormitories_required", "toilets_functional_available", "toilets_required",
       "bathrooms_available", "bathrooms_required", "dual_desk_available",
       "dual_desk_required", "computers_available", "dining_tables_available",
       "dining_tables_required", "cots_available", "cots_required",
       "matresses_available", "matresses_required", "blankets_available",
       "blankets_required", "ifp_panels_available", "vacancy_count" >>

CountTexts ==
    << <<"3">>, <<"1","2","-","1","5"," ","r","o","o","m","s">>, <<"0">>, <<"$","5">>,
       <<"a","b","c">>, <<"7",".","9">>, <<"2","0">>, <<"-","5">>, <<"n","a","n">>,
       <<" ","4","1"," ">>, <<"9"," ","n","o","s">> >>

\* A row of the sheet under its canonical column names; the count columns
\* take the texts of CountTexts in turn, from the row's seed on.
SampleRow(sl, name, enrolled, vacant, water, ro, internet, swh_a, swh_r, seed) ==
    [c \in Columns |->
        CASE c = "sl_no"             -> sl
          [] c = "school_name"       -> name
          [] c = "enrolled_students" -> enrolled
          [] c = "vacant_seats"      -> vacant
          [] c = "drinking_water"    -> water
          [] c = "ro_plant"          -> ro
          [] c = "internet_facility" -> internet
          [] c = "swh_available"     -> swh_a
          [] c = "swh_required"      -> swh_r
          [] c = "remarks"           -> <<"o","k">>
          [] OTHER ->
               LET k == CHOOSE k \in 1..Len(CountColumns) : CountColumns[k] = c
               IN  CountTexts[((seed * k + k) % Len(CountTexts)) + 1]]

SampleRows ==
    << SampleRow(<<"1">>, <<"K","G","B","V"," ","N","a","l","g","o","n","d","a">>,
                 <<"4","0">>, <<"1","0">>, <<"Y","e","s">>, <<" ","N","O"," ">>,
                 <<"y","e","s">>, <<"Y","e","s">>, <<"N","o">>, 0),
       SampleRow(<<"2">>, <<"t","g","m","s"," ","b">>,
                 <<"0">>, <<"5">>, <<"N","o">>, <<"n","a","n">>,
                 <<"N","/","A">>, <<"n","o">>, <<"2">>, 1),
       SampleRow(<<"3">>, <<"G","o","v","t"," ","H","i","g","h"," ","S","c","h","o","o","l">>,
                 <<"1","2","-","1","5"," ","r","o","o","m","s">>, <<"a","b","c">>,
                 <<"n","a","n">>, <<"Y","E","S","U+00A0">>, <<"N","o","t"," ","y","e","t">>,
                 <<"n","a","n">>, <<"Y","e","s"," ","3">>, 2),
       SampleRow(<<"4">>, <<"P","M","S","H","R","U+0131"," ","x">>,
                 <<"1","0","0">>, <<"2","5">>, <<"y","e","s">>, <<"y","e","s">>,
                 <<"N","o">>, <<"Y","e","s">>, <<"N","o">>, 3),
       SampleRow(<<"5">>, <<"U+00A0"," ","K","G","B","V"," ","z","U+3000">>,
                 <<"2","5"," ">>, <<"0">>, <<"N","O">>, <<"N","o">>,
                 <<"Y","e","s">>, <<"Y","e","s">>, <<"Y","e","s">>, 4),
       SampleRow(<<"6">>, <<"T","G","M","S">>,
                 <<"6","0">>, <<"$","5">>, <<"Y","e","s">>, <<"U+0130","/","A">>,
                 <<"n","a","n">>, <<"N","o">>, <<"N","o">>, 5),
       SampleRow(<<"7">>, <<"K","g","b","v"," ","7">>,
                 <<"8">>, <<"2">>, <<"n","o">>, <<"Y","e","s">>,
                 <<"y","e","s">>, <<"5">>, <<"n","a","n">>, 7),
       SampleRow(<<"8">>, <<"O","t","h","e","r"," ","s","c","h","o","o","l">>,
                 <<"a","b","c">>, <<"7">>, <<"Y","e","s">>, <<"Y","e","s">>,
                 <<"Y","e","s">>, <<"N","o">>, <<"N","o">>, 8),
       SampleRow(<<"9">>, <<"p","m","s","h","r","U+0131"," ","9">>,
                 <<"3","3">>, <<"1">>, <<"N","o">>, <<"N","o">>,
                 <<"N","o">>, <<"N","o">>, <<"N","o">>, 9) >>

\* the row as the sheet has it, under the sheet's own headers
SheetRow(row) == [h \in DOMAIN COLUMN_MAPPING |-> row[COLUMN_MAPPING[h]]]

RECURSIVE RowsOf(_, _)
RowsOf(S, descending) ==
    IF S = {} THEN <<>>
    ELSE LET k == IF descending THEN CHOOSE k \in S : \A j \in S : j <= k
                  ELSE CHOOSE k \in S : \A j \in S : k <= j
         IN  <<SheetRow(SampleRows[k])>> \o RowsOf(S \ {k}, descending)

FullSheets == {RowsOf(S, d) : S \in SUBSET (1..MaxRows), d \in BOOLEAN}

\* the sheet without one of its columns
drop_column(csv, header) ==
    [i \in 1..Len(csv) |-> [h \in DOMAIN csv[i] \ {header} |-> csv[i][h]]]

\* the headers the model's sheets may lack: one the code never reads by name
\* and three it does
DroppedHeaders == {"Remarks", "School_Name", "RO Plant available or not", "Vacancy"}

\* the sheets of the model: the full ones, and the ones of one row that lack
\* a column
Sheets ==
    FullSheets \cup
    {drop_column(RowsOf({k}, FALSE), h) : k \in 1..MaxRows, h \in DroppedHeaders}

(***************************************************************************)
(* The frame operations of the script.                                     *)
(***************************************************************************)
\* ['All'] + sorted(df_original['Department'].unique().tolist()), as the
\* set of choices the select box offers
department_options(df) == {"All"} \cup {df[i]["Department"] : i \in 1..Len(df)}

\* the department filter of the script
apply_department_filter(df, department) ==
    IF department # "All"
    THEN SelectSeq(df, LAMBDA row : row["Department"] = department)
    ELSE df

\* overall_vacancy_percent
vacancy_percent(total_vacant, total_capacity) ==
    IF total_capacity > 0 THEN Ratio(total_vacant * 100, total_capacity) ELSE Ratio(0, 1)

\* DataFrame.dropna(subset=cols), given the dtypes of the frame: the cells of
\* an int64 column are never null
dropna(df, cols, dtype) ==
    SelectSeq(df, LAMBDA row :
        \A c \in cols : dtype[c] = "float64" => ~IsNaN(row[c]))

\* df[cols]
project(df, cols) == [i \in 1..Len(df) |-> [c \in cols |-> df[i][c]]]

\* ratios_df
ratios_frame(df, dtype) ==
    dropna(project(df, {"school_name", "enrolled_students"} \cup RatioColNames),
           {"enrolled_students"} \cup RatioColNames, dtype)

\* the frame without its i-th row
without_row(df, i) == SubSeq(df, 1, i - 1) \o SubSeq(df, i + 1, Len(df))

\* DataFrame.sort_values(by=by, ascending=True) on a frame without nulls:
\* the default sort is not stable, so rows of equal value come in any order.
\* The set of the frames the sort may return.
RECURSIVE sort_values(_, _)
sort_values(df, by) ==
    IF df = <<>> THEN {<<>>}
    ELSE UNION { { <<df[i]>> \o rest : rest \in sort_values(without_row(df, i), by) }
                 : i \in { i \in 1..Len(df) :
                             \A j \in 1..Len(df) : ~RatioLess(df[j][by], df[i][by]) } }

Worst == 5

\* head one row short
head_one_short(df, n) == SubSeq(df, 1, IF Len(df) < n - 1 THEN Len(df) ELSE n - 1)

\* DataFrame.head(n)
head(df, n) == SubSeq(df, 1, IF Len(df) < n THEN Len(df) ELSE n)

\* df_ranked[['school_name', ratio_col]], before the display formatting: the
\* set of the tables the ranking may give
worst_table(ratios_df, ratio_col) ==
    { project(head(df_sorted, Worst), {"school_name", ratio_col})
      : df_sorted \in sort_values(ratios_df, ratio_col) }

YesNoCharts == {"drinking_water", "ro_plant", "internet_facility"}

FulfillmentCharts ==
    ("Classrooms"         :> <<"class_rooms_available", "class_rooms_required">>) @@
    ("Dormitories"        :> <<"dormitories_available", "dormitories_required">>) @@
    ("Functional Toilets" :> <<"toilets_functional_available", "toilets_required">>) @@
    ("Bathrooms"          :> <<"bathrooms_available", "bathrooms_required">>) @@
    ("Dual Desks"         :> <<"dual_desk_available", "dual_desk_required">>) @@
    ("Cots"               :> <<"cots_available", "cots_required">>)

(***************************************************************************)
(* Spec: one run of the script.                                            *)
(***************************************************************************)
FnIdle ==
    /\ fn = "idle"
    /\ arg = <<>>
    /\ others = <<>>
    /\ result = <<>>

Init ==
    /\ pc = "load"
    /\ platform \in Platforms
    /\ sheet \in Sheets
    /\ read_csv = "pending"
    /\ fetches = 0
    /\ messages = <<>>
    /\ df_original = <<>>
    /\ dtypes = <<>>
    /\ selected_department = "All"
    /\ df_filtered = <<>>
    /\ tab1 = [rendered |-> FALSE]
    /\ tab2 = [rendered |-> FALSE]
    /\ FnIdle

\* load_and_clean_data when read_csv raises: the error is shown and an empty
\* frame returned
LoadFails ==
    /\ pc = "load"
    /\ read_csv' = "raised"
    /\ fetches' = fetches + 1
    /\ messages' = Append(messages, [kind |-> "error",
                                     text |-> "Error loading data from Google Sheet"])
    /\ df_original' = <<>>
    /\ dtypes' = <<>>
    /\ pc' = "loaded"
    /\ UNCHANGED <<platform, sheet, selected_department, df_filtered, tab1, tab2, fn_vars>>

\* load_and_clean_data when read_csv delivers a sheet without one of the
\* columns the cleaning reads by name: the KeyError is not caught and ends
\* the run
LoadKeyError ==
    /\ pc = "load"
    /\ ~has_needed_cols(sheet)
    /\ read_csv' = "read"
    /\ fetches' = fetches + 1
    /\ pc' = "crashed"
    /\ UNCHANGED <<platform, sheet, messages, df_original, dtypes,
                   selected_department, df_filtered, tab1, tab2, fn_vars>>

\* load_and_clean_data when read_csv delivers the sheet
LoadCleans ==
    /\ pc = "load"
    /\ has_needed_cols(sheet)
    /\ read_csv' = "read"
    /\ fetches' = fetches + 1
    /\ df_original' = clean_frame(sheet, platform)
    /\ dtypes' = clean_dtypes(columns_of(sheet), df_original')
    /\ pc' = "loaded"
    /\ UNCHANGED <<platform, sheet, messages, selected_department, df_filtered,
                   tab1, tab2, fn_vars>>

\* the script without the st.stop()
never_stop(df) == "sidebar"

\* if df_original.empty: st.stop()
stop_if_empty(df) == IF df = <<>> THEN "stopped" ELSE "sidebar"

StopIfEmpty ==
    /\ pc = "loaded"
    /\ pc' = stop_if_empty(df_original)
    /\ UNCHANGED <<platform, sheet, read_csv, fetches, messages, df_original, dtypes,
                   selected_department, df_filtered, tab1, tab2, fn_vars>>

\* the select box of the sidebar and the department filter
SelectDepartment ==
    /\ pc = "sidebar"
    /\ \E d \in department_options(df_original) :
          /\ selected_department' = d
          /\ df_filtered' = apply_department_filter(df_original, d)
    /\ pc' = "tab1"
    /\ UNCHANGED <<platform, sheet, read_csv, fetches, messages, df_original, dtypes,
                   tab1, tab2, fn_vars>>

\* tab 1: the four KPIs, the three Yes/No charts, the six fulfillment charts
RenderTab1 ==
    /\ pc = "tab1"
    /\ LET total_enrolled == column_sum(df_filtered, "enrolled_students")
           total_vacant   == column_sum(df_filtered, "vacant_seats")
       IN  tab1' =
             [rendered       |-> TRUE,
              total_schools  |-> Len(df_filtered),
              total_enrolled |-> total_enrolled,
              total_vacant   |-> total_vacant,
              overall_vacancy_percent |->
                  vacancy_percent(total_vacant, total_enrolled + total_vacant),
              yes_no |-> [c \in YesNoCharts |-> create_yes_no_chart(df_filtered, c)],
              fulfillment |->
                  [t \in DOMAIN FulfillmentCharts |->
                      create_fulfillment_chart(df_filtered, FulfillmentCharts[t][1],
                                               FulfillmentCharts[t][2])]]
    /\ pc' = "tab2"
    /\ UNCHANGED <<platform, sheet, read_csv, fetches, messages, df_original, dtypes,
                   selected_department, df_filtered, tab2, fn_vars>>

\* tab 2: the worst-5 table of every ratio and the detail table, or the
\* warning when no school is left
RenderTab2 ==
    /\ pc = "tab2"
    /\ LET ratios_df == ratios_frame(df_filtered, dtypes)
       IN  IF ratios_df = <<>>
           THEN /\ messages' = Append(messages, [kind |-> "warning",
                      text |-> "No schools with sufficient enrollment data"])
                /\ tab2' = [rendered |-> TRUE, shown |-> FALSE,
                            ratios_df |-> ratios_df, worst |-> <<>>, detail |-> <<>>]
           ELSE /\ messages' = messages
                /\ \E classrooms \in worst_table(ratios_df, "ratio_classrooms"),
                      toilets    \in worst_table(ratios_df, "ratio_toilets"),
                      bathrooms  \in worst_table(ratios_df, "ratio_bathrooms"),
                      desks      \in worst_table(ratios_df, "ratio_desks"),
                      cots       \in worst_table(ratios_df, "ratio_cots"),
                      computers  \in worst_table(ratios_df, "ratio_computers") :
                      tab2' = [rendered |-> TRUE, shown |-> TRUE,
                               ratios_df |-> ratios_df,
                               worst  |-> ("ratio_classrooms" :> classrooms) @@
                                          ("ratio_toilets"    :> toilets) @@
                                          ("ratio_bathrooms"  :> bathrooms) @@
                                          ("ratio_desks"      :> desks) @@
                                          ("ratio_cots"       :> cots) @@
                                          ("ratio_computers"  :> computers),
                               detail |-> ratios_df]
    /\ pc' = "done"
    /\ UNCHANGED <<platform, sheet, read_csv, fetches, df_original, dtypes,
                   selected_department, df_filtered, tab1, fn_vars>>

Next ==
    \/ LoadFails
    \/ LoadKeyError
    \/ LoadCleans
    \/ StopIfEmpty
    \/ SelectDepartment
    \/ RenderTab1
    \/ RenderTab2

Spec == Init /\ [][Next]_vars

(***************************************************************************)
(* SpecFn: the functions applied to bounded inputs.                        *)
(***************************************************************************)
TextsUpTo(alphabet, n) == UNION {[1..k -> alphabet] : k \in 0..n}

YesNoAlphabet == {"Y", "e", "s", "n", "O", "a", " "}

YesNoSamples ==
    { <<" "," ","Y","E","S"," ">>, <<"N","o">>, <<"N","/","A">>, <<"n","a","n">>,
      <<"N","o","t"," ","y","e","s">>, <<"U","n","k","n","o","w","n">>,
      <<"U+00A0","Y","E","S","U+3000">>, <<"U+000D","N","/","A","U+0085">>,
      <<"U+0130","U+00C9","U+212A">>, <<"U+2003","U+00DF","U+001F">> }

YesNoInputs == TextsUpTo(YesNoAlphabet, MaxYesNoLen) \cup YesNoSamples

NumAlphabet == {"0", "1", "5", ".", "-", "$", "a", " "}

NumSamples ==
    { <<"1","2","-","1","5"," ","r","o","o","m","s">>, <<"$","5">>, <<"a","b","c">>,
      <<"-","5">>, <<"n","a","n">>, <<"R","s",".","1","2","-","1","5">>,
      <<"2"," ","x"," ","1","2","-","1","5">>, <<"1","2",".","7","5"," ","k","g">>,
      <<"U+00A0","4","U+2003">>, <<"7",".">> \o Nines(7),
      \* 15 digits, and one more
      Nines(15), <<"0",".">> \o Nines(14), Nines(8) \o <<".">> \o Nines(7),
      <<"0",".">> \o Nines(15), <<"0",".">> \o Nines(16), Nines(8) \o <<".">> \o Nines(13),
      \* 2^53 + 1
      <<"9","0","0","7","1","9","9","2","5","4","7","4","0","9","9","3">>,
      \* 2^63 - 1, 2^63, 2^64 - 1, 2^64
      <<"9","2","2","3","3","7","2","0","3","6","8","5","4","7","7","5","8","0","7">>,
      <<"9","2","2","3","3","7","2","0","3","6","8","5","4","7","7","5","8","0","8">>,
      <<"1","8","4","4","6","7","4","4","0","7","3","7","0","9","5","5","1","6","1","5">>,
      <<"1","8","4","4","6","7","4","4","0","7","3","7","0","9","5","5","1","6","1","6">>,
      Nines(21), Nines(21) \o <<".","5">>, <<"-">> \o Nines(21),
      <<".">> \o Nines(21), <<"5",".">> \o Nines(20),
      \* around the largest float64
      <<"1">> \o Zeros(MaxExponent), Nines(MaxExponent + 1), Nines(MaxExponent + 2),
      \* zeros in front
      Zeros(max_digits) \o <<"5">>, Zeros(max_digits) \o <<"5",".","5">>,
      Zeros(MaxExponent + max_digits + 1) \o <<"5">> }

\* the other cells of the column: none, a count, a text that is no number,
\* a count of 2^63 or more
NumOthers ==
    { <<>>, << <<"7">> >>, << <<"a","b","c">> >>,
      << <<"1","8","4","4","6","7","4","4","0","7","3","7","0","9","5","5","1","6","1","5">> >> }

\* none, or a text that is no number
NumFewOthers == { <<>>, << <<"a","b","c">> >> }

NumInputs == TextsUpTo(NumAlphabet, MaxNumLen) \cup NumSamples

NamePrefixes ==
    { <<"K","G","B","V">>, <<"k","g","b","v">>, <<"K","g","B","v">>, <<"K","G","B">>,
      <<"T","G","M","S">>, <<"t","g","m","s">>, <<"T","G","M">>,
      <<"P","M","S","H","R","I">>, <<"p","m","S","h","r","i">>, <<"P","M","S","H","R">>,
      <<"G","o","v","t">>, <<" ","K","G","B","V">>, <<"X","T","G","M","S">>, <<>>,
      <<"t","g","m","U+017F">>, <<"T","G","M","U+00DF">>,
      <<"p","m","s","h","r","U+0131">>, <<"P","M","S","H","R","U+0130">>,
      <<"U+212A","g","b","v">>, <<"U+00A0","K","G","B","V">>, <<"U+00C9","c","o","l","e">> }

NameSuffixAlphabet == {"V", "s", "I", " ", "1"}

NameInputs ==
    { p \o t : p \in NamePrefixes, t \in TextsUpTo(NameSuffixAlphabet, MaxSuffixLen) }

CleanedYesNoValues == { <<"y","e","s">>, <<"n","o">>, <<"n","/","a">>, <<"n","a","n">> }

YesNoFrames ==
    UNION { [1..k -> {[drinking_water |-> v] : v \in CleanedYesNoValues}]
            : k \in 0..MaxChartRows }

CountFrames ==
    UNION { [1..k -> [cots_available : 0..MaxCount, cots_required : 0..MaxCount]]
            : k \in 0..MaxChartRows }

ScriptIdle ==
    /\ pc = "idle"
    /\ sheet = <<>>
    /\ read_csv = "pending"
    /\ fetches = 0
    /\ messages = <<>>
    /\ df_original = <<>>
    /\ dtypes = <<>>
    /\ selected_department = "All"
    /\ df_filtered = <<>>
    /\ tab1 = [rendered |-> FALSE]
    /\ tab2 = [rendered |-> FALSE]

InitFn ==
    /\ ScriptIdle
    /\ platform \in Platforms
    /\ result = <<>>
    /\ \/ fn = "clean_yes_no" /\ arg \in YesNoInputs /\ others = <<>>
       \/ fn = "clean_numeric" /\ arg \in NumSamples /\ others \in NumOthers
       \/ fn = "clean_numeric" /\ arg \in NumInputs /\ others \in NumFewOthers
       \/ fn = "get_department" /\ arg \in NameInputs /\ others = <<>>
       \/ fn = "create_yes_no_chart" /\ arg \in YesNoFrames /\ others = <<>>
       \/ fn = "create_fulfillment_chart" /\ arg \in CountFrames /\ others = <<>>

ApplyCleanYesNo ==
    /\ fn = "clean_yes_no"
    /\ fn' = "done_clean_yes_no"
    /\ result' = clean_yes_no(arg)
    /\ UNCHANGED <<arg, others, platform, script_vars>>

ApplyCleanNumeric ==
    /\ fn = "clean_numeric"
    /\ fn' = "done_clean_numeric"
    /\ result' = clean_numeric(<<arg>> \o others, platform)[1]
    /\ UNCHANGED <<arg, others, platform, script_vars>>

ApplyGetDepartment ==
    /\ fn = "get_department"
    /\ fn' = "done_get_department"
    /\ result' = get_department(arg)
    /\ UNCHANGED <<arg, others, platform, script_vars>>

ApplyYesNoChart ==
    /\ fn = "create_yes_no_chart"
    /\ fn' = "done_create_yes_no_chart"
    /\ result' = create_yes_no_chart(arg, "drinking_water")
    /\ UNCHANGED <<arg, others, platform, script_vars>>

ApplyFulfillmentChart ==
    /\ fn = "create_fulfillment_chart"
    /\ fn' = "done_create_fulfillment_chart"
    /\ result' = create_fulfillment_chart(arg, "cots_available", "cots_required")
    /\ UNCHANGED <<arg, others, platform, script_vars>>

NextFn ==
    \/ ApplyCleanYesNo
    \/ ApplyCleanNumeric
    \/ ApplyGetDepartment
    \/ ApplyYesNoChart
    \/ ApplyFulfillmentChart

SpecFn == InitFn /\ [][NextFn]_vars

(***************************************************************************)
(* The properties, stated from the texts and frames alone.                 *)
(***************************************************************************)
Kept(c) == c \in {"0","1","2","3","4","5","6","7","8","9",".","-"}

\* the first position of t that satisfies Test, Len(t) + 1 without one
FirstWhere(t, Test(_)) ==
    IF \E i \in 1..Len(t) : Test(t[i])
    THEN CHOOSE i \in 1..Len(t) : Test(t[i]) /\ \A j \in 1..(i - 1) : ~Test(t[j])
    ELSE Len(t) + 1

\* the characters of x that are digits, periods or hyphens, up to the first
\* hyphen
LeadingNumberText(x) ==
    SelectSeq(SubSeq(x, 1, FirstWhere(x, LAMBDA c : c = "-") - 1), Kept)

Periods(t) == Cardinality({i \in 1..Len(t) : t[i] = "."})

\* t, made of digits and periods, is a number
IsNumberText(t) == Periods(t) <= 1 /\ Len(t) > Periods(t)

\* the digits of t before its period
WholeDigits(t) == SubSeq(t, 1, FirstWhere(t, LAMBDA c : c = ".") - 1)

NoLeadingZeros(d) == SubSeq(d, FirstWhere(d, LAMBDA c : c # "0"), Len(d))

DecimalDigit(c) ==
    CASE c = "0" -> 0 [] c = "1" -> 1 [] c = "2" -> 2 [] c = "3" -> 3 [] c = "4" -> 4
      [] c = "5" -> 5 [] c = "6" -> 6 [] c = "7" -> 7 [] c = "8" -> 8 [] c = "9" -> 9

RECURSIVE Horner(_, _)
Horner(acc, d) == IF d = <<>> THEN acc ELSE Horner(10 * acc + DecimalDigit(Head(d)), Tail(d))

\* the integer a text of digits stands for
NumberOf(d) == Horner(0, d)

NumericDone == fn = "done_clean_numeric"

\* the whole part of the number the cell leads with
WholePart(x) == NoLeadingZeros(WholeDigits(LeadingNumberText(x)))

\* the digits of a text of digits and periods
DigitCount(t) == Len(t) - Periods(t)

\* the int64 a text of digits without leading zeros stands for
ExpectedInt64(w) ==
    IF Len(w) <= ExactLen THEN Int64(NumberOf(w))
    ELSE [rep |-> "digits", neg |-> FALSE, d |-> w]

\* x[i..j] is the a of a range a-b: a run of digits, not preceded by a digit,
\* followed by a hyphen and a digit
IsRangeAt(x, i, j) ==
    /\ 1 <= i /\ i <= j /\ j + 2 <= Len(x)
    /\ x[j + 1] = "-"
    /\ x[j + 2] \in {"0","1","2","3","4","5","6","7","8","9"}
    /\ \A k \in i..j : x[k] \in {"0","1","2","3","4","5","6","7","8","9"}
    /\ i > 1 => x[i - 1] \notin {"0","1","2","3","4","5","6","7","8","9"}

\* the positions right before a hyphen of x
BeforeHyphen(x) == {j \in 1..(Len(x) - 1) : x[j + 1] = "-"}

PlainBefore(x, i) == \A k \in 1..(i - 1) : ~Kept(x[k])

NumericExamples ==
    /\ arg = <<"1","2","-","1","5"," ","r","o","o","m","s">> => result = Int64(12)
    /\ arg = <<"$","5">> => result = Int64(5)
    /\ arg = <<"a","b","c">> => result = Int64(0)
    /\ arg = <<>> => result = Int64(0)

\* C2: every cleaned count is a non-negative integer, whatever the text of
\* the cell.
C2_CountsNonNegative ==
    NumericDone =>
        \/ result.rep = "exact" /\ result.v >= 0
        \/ result.rep = "digits" /\ ~result.neg

IsNegativeNumberText(x) ==
    /\ Len(x) >= 2 /\ Len(x) <= ExactLen + 1
    /\ x[1] = "-"
    /\ \A k \in 2..Len(x) : x[k] \in {"0","1","2","3","4","5","6","7","8","9"}

\* C4, as stated: a cell holding a negative number keeps its sign.
C4_SignPreserved ==
    (NumericDone /\ IsNegativeNumberText(arg)) =>
        result = Int64(0 - NumberOf(NoLeadingZeros(Tail(arg))))

\* C4, amended: a cell whose first digit, period or hyphen is a hyphen is
\* cleaned to 0; the sign and the digits behind it are dropped.
C4_LeadingHyphenGivesZero ==
    (NumericDone /\ \E i \in 1..Len(arg) : arg[i] = "-" /\ PlainBefore(arg, i)) =>
        result = Int64(0)

C4_Witness ==
    /\ NumericDone
    /\ arg = <<"-","5">>
    /\ result = Int64(0)

\* the small form of a capital letter of the prefixes
SmallLetter(l) ==
    CASE l = "K" -> "k" [] l = "G" -> "g" [] l = "B" -> "b" [] l = "V" -> "v"
      [] l = "T" -> "t" [] l = "M" -> "m" [] l = "S" -> "s" [] l = "P" -> "p"
      [] l = "H" -> "h" [] l = "R" -> "r" [] l = "I" -> "i"

\* the characters that are the capital letter l when letter case is ignored,
\* that is, whose upper-case form is l: the letter, its small form, and the
\* small letters without a capital of their own, the long s (U+017F) for S
\* and the dotless i (U+0131) for I
LetterForms(l) ==
    {l, SmallLetter(l)} \cup (IF l = "S" THEN {"U+017F"} ELSE {})
                        \cup (IF l = "I" THEN {"U+0131"} ELSE {})

\* p is a prefix of name, letter case ignored; the sharp s (U+00DF), whose
\* upper-case form is SS, stands for the S a prefix ends with
PrefixIgnoringCase(name, p) ==
    /\ Len(name) >= Len(p)
    /\ \A i \in 1..Len(p) :
          \/ name[i] \in LetterForms(p[i])
          \/ i = Len(p) /\ p[i] = "S" /\ name[i] = "U+00DF"

\* C5: every school name gets exactly one of the four tags, by the ordered
\* prefix test on the name, letter case ignored (two texts are the same
\* when their upper-case forms are).
C5_DepartmentByPrefix ==
    fn = "done_get_department" =>
        /\ result \in {"KGBV (Girls)", "TGMS (Co-ed)", "PMSHRI (Co-ed)", "Other"}
        /\ result =
             IF PrefixIgnoringCase(arg, <<"K","G","B","V">>) THEN "KGBV (Girls)"
             ELSE IF PrefixIgnoringCase(arg, <<"T","G","M","S">>) THEN "TGMS (Co-ed)"
             ELSE IF PrefixIgnoringCase(arg, <<"P","M","S","H","R","I">>) THEN "PMSHRI (Co-ed)"
             ELSE "Other"

C5_Witness ==
    /\ fn = "done_get_department"
    /\ arg = <<"k","g","b","v"," ">>
    /\ result = "KGBV (Girls)"

\* the sheet's header of a column
HeaderOf(c) == CHOOSE h \in DOMAIN COLUMN_MAPPING : COLUMN_MAPPING[h] = c

\* C1: after the load every Yes/No field holds 'yes', 'no' or the lowercased,
\* trimmed text of its cell.
C1_YesNoFieldsCleaned ==
    read_csv = "read" =>
        \A i \in 1..Len(df_original) : \A c \in yes_no_cols :
            LET t == strip(lower(sheet[i][HeaderOf(c)]))
            IN  /\ dtypes[c] = "object"
                /\ df_original[i][c] =
                     IF contains(t, <<"y","e","s">>) THEN <<"y","e","s">>
                     ELSE IF contains(t, <<"n","o">>) THEN <<"n","o">>
                     ELSE t

RECURSIVE TotalUpTo(_, _, _)
TotalUpTo(df, col, n) == IF n = 0 THEN 0 ELSE TotalUpTo(df, col, n - 1) + df[n][col]

\* the total of a column over every row of the frame
Total(df, col) == TotalUpTo(df, col, Len(df))

NamesOf(table) == {table[k]["school_name"] : k \in 1..Len(table)}

ZeroEnrolled(i) == df_filtered[i]["enrolled_students"] = 0

\* C6: a school without enrolled students has no ratio (null, never an
\* infinity), is in no worst-5 table and not in the detail table, and counts
\* in the school count, the totals, the vacancy percent and the fulfillment
\* sums.
C6_ZeroEnrollment ==
    pc = "done" =>
        /\ \A i \in 1..Len(df_filtered) : \A c \in RatioColNames :
              /\ ZeroEnrolled(i) => IsNaN(df_filtered[i][c])
              /\ ~IsNaN(df_filtered[i][c]) => df_filtered[i][c].den # 0
        /\ \A i \in 1..Len(df_filtered) :
              ZeroEnrolled(i) =>
                  /\ df_filtered[i]["school_name"] \notin NamesOf(tab2.detail)
                  /\ tab2.shown =>
                        \A c \in RatioColNames :
                            df_filtered[i]["school_name"] \notin NamesOf(tab2.worst[c])
        /\ tab1.total_schools = Len(df_filtered)
        /\ tab1.total_enrolled = Total(df_filtered, "enrolled_students")
        /\ tab1.total_vacant = Total(df_filtered, "vacant_seats")
        /\ LET capacity == Total(df_filtered, "enrolled_students")
                             + Total(df_filtered, "vacant_seats")
           IN  RatioEq(tab1.overall_vacancy_percent,
                       IF capacity > 0
                       THEN Ratio(100 * Total(df_filtered, "vacant_seats"), capacity)
                       ELSE Ratio(0, 1))
        /\ \A t \in DOMAIN FulfillmentCharts :
              tab1.fulfillment[t].max_x =
                  Total(df_filtered, FulfillmentCharts[t][1])
                    + Total(df_filtered, FulfillmentCharts[t][2])

C6_Witness ==
    /\ pc = "done"
    /\ tab2.shown
    /\ Len(tab2.detail) >= 2
    /\ \E i \in 1..Len(df_filtered) :
          /\ ZeroEnrolled(i)
          /\ df_filtered[i]["toilets_functional_available"] > 0
          /\ df_filtered[i]["vacant_seats"] > 0

\* the rows of the filtered frame with a value for the metric
Candidates(c) == {i \in 1..Len(df_filtered) : ~IsNaN(df_filtered[i][c])}

\* C8: the worst-5 table of a metric holds the five lowest rows (all, when
\* fewer) among exactly the rows with a value for the metric, in ascending
\* order.
C8_WorstFive ==
    pc = "done" =>
        IF tab2.shown
        THEN \A c \in RatioColNames :
                LET T == tab2.worst[c]
                IN  /\ Len(T) = IF Cardinality(Candidates(c)) < 5
                                THEN Cardinality(Candidates(c)) ELSE 5
                    /\ \A k \in 1..(Len(T) - 1) : ~RatioLess(T[k + 1][c], T[k][c])
                    /\ \A k, l \in 1..Len(T) :
                          k # l => T[k]["school_name"] # T[l]["school_name"]
                    /\ \A k \in 1..Len(T) : \E i \in Candidates(c) :
                          /\ T[k]["school_name"] = df_filtered[i]["school_name"]
                          /\ T[k][c] = df_filtered[i][c]
                    /\ \A i \in Candidates(c) :
                          df_filtered[i]["school_name"] \notin NamesOf(T) =>
                              \A k \in 1..Len(T) : ~RatioLess(df_filtered[i][c], T[k][c])
        ELSE \A c \in RatioColNames : Candidates(c) = {}

C8_Witness ==
    /\ pc = "done"
    /\ tab2.shown
    /\ Cardinality(Candidates("ratio_cots")) > 5
    /\ \E i \in 1..Len(df_filtered) : IsNaN(df_filtered[i]["ratio_cots"])
    /\ \E k \in 1..4 :
          RatioLess(tab2.worst["ratio_cots"][k]["ratio_cots"],
                    tab2.worst["ratio_cots"][k + 1]["ratio_cots"])

\* C9: when the fetch fails the error is shown, nothing is rendered, the run
\* stops, and the sheet is fetched once.
C9_FetchFailureHalts ==
    read_csv = "raised" =>
        /\ \E k \in 1..Len(messages) : messages[k].kind = "error"
        /\ pc \in {"loaded", "stopped"}
        /\ fetches = 1
        /\ ~tab1.rendered
        /\ ~tab2.rendered
        /\ df_filtered = <<>>

C9_Witness ==
    /\ read_csv = "raised"
    /\ pc = "stopped"
    /\ Len(messages) = 1
    /\ sheet # <<>>

\* C7: the fulfillment ratio is sum(available) / (sum(available) +
\* sum(required)), 1 when that need is 0; the breakdown holds the two sums,
\* without the one that is 0.
C7_Fulfillment ==
    fn = "done_create_fulfillment_chart" =>
        LET A == Total(arg, "cots_available")
            D == Total(arg, "cots_required")
        IN  /\ RatioEq(result.fulfillment_ratio,
                       IF A + D > 0 THEN Ratio(A, A + D) ELSE Ratio(1, 1))
            /\ result.fulfillment_ratio.den > 0
            /\ Len(result.data) = (IF A > 0 THEN 1 ELSE 0) + (IF D > 0 THEN 1 ELSE 0)
            /\ A > 0 => \E k \in 1..Len(result.data) :
                           result.data[k] = [Status |-> "Available", Count |-> A]
            /\ D > 0 => \E k \in 1..Len(result.data) :
                           result.data[k] = [Status |-> "Deficient", Count |-> D]

C7_Witness ==
    /\ fn = "done_create_fulfillment_chart"
    /\ Len(arg) >= 2
    /\ Total(arg, "cots_available") > 0
    /\ Total(arg, "cots_required") = 0
    /\ Len(result.data) = 1
    /\ result.fulfillment_ratio.num = result.fulfillment_ratio.den

HasYes(t) ==
    \E i \in 1..(Len(t) - 2) : t[i] = "y" /\ t[i + 1] = "e" /\ t[i + 2] = "s"

\* C10: Yes and No add up to the number of rows, No counts every row
\* without 'yes', and the Yes share of an empty frame is 0.
C10_YesNoCounts ==
    fn = "done_create_yes_no_chart" =>
        LET Yes == {i \in 1..Len(arg) : HasYes(arg[i]["drinking_water"])}
        IN  /\ result.data[1] = [Status |-> "Yes", Count |-> Cardinality(Yes)]
            /\ result.data[2] = [Status |-> "No", Count |-> Len(arg) - Cardinality(Yes)]
            /\ result.data[1].Count + result.data[2].Count = Len(arg)
            /\ Len(arg) = 0 => result.yes_percent.num = 0
            /\ Len(arg) > 0 => RatioEq(result.yes_percent, Ratio(Cardinality(Yes), Len(arg)))

C10_Witness ==
    /\ fn = "done_create_yes_no_chart"
    /\ \E i, j, k \in 1..Len(arg) :
          /\ arg[i]["drinking_water"] = <<"n","/","a">>
          /\ arg[j]["drinking_water"] = <<"n","a","n">>
          /\ arg[k]["drinking_water"] = <<"y","e","s">>
    /\ result.data[2].Count = 2

====
